---- MODULE Spec2Model ----
(***************************************************************************)
(* Model of quack (src/main.rs): the three persisted preferences           *)
(* (ducky, playback_rate, volume), their load from and write-back to the   *)
(* browser's local storage, the settings handlers that change them, and    *)
(* the sound player with its single audio element.                         *)
(*                                                                         *)
(* An f64 is modelled by its value in hundredths (0.8 is 80, 1.37 is 137); *)
(* a stored item or a DOM string is a sequence of one-character strings.   *)
(* A JS exception (throw_str, unwrap_throw, a throwing DOM setter) unwinds *)
(* the callback that raised it: the rest of that callback does not run,    *)
(* and the page's event loop goes on with the next callback. An exception  *)
(* inside app() itself leaves the application unmounted.                   *)
(*                                                                         *)
(* Scheduling. The page is single-threaded: a callback runs to its end.    *)
(* create_effect queues the effect's first run, which happens once app()   *)
(* has returned and before any event is handled. signal.set re-runs the    *)
(* effects that read the signal before it returns, the write-back effect   *)
(* (created first) before the effect of sounds(). spawn_local queues the   *)
(* task, which runs up to its await before the next event is handled.      *)
(*                                                                         *)
(* SpecSettings is startup and the settings panel over a storage that may  *)
(* refuse writes; Spec adds the sound player, over a storage that refuses  *)
(* none.                                                                   *)
(***************************************************************************)
EXTENDS Integers, Sequences, FiniteSets

\* ------------------------------------------------------------------ bounds

\* Play promises that may be pending at once.
MaxPending == 2
\* Writes the storage refuses (its quota is exceeded) in one behaviour.
MaxFaults == 1

\* --------------------------------------------------------- program constants

DEFAULT_PLAYBACK_RATE == 80
DEFAULT_VOLUME == 10
\* Slider min/max of the two range inputs.
RateMin == 15
RateMax == 200
VolumeMin == 1
VolumeMax == 100
\* SOUNDS.len()
NumSounds == 8
\* HTMLMediaElement's initial defaultPlaybackRate / playbackRate / volume (1.0).
AudioInitial == 100

Keys == {"ducky", "playback_rate", "volume"}
\* enum Duck, in the order of Duck::iter
Duck == <<"One", "Two", "Three", "Four">>
Ducks == {Duck[i] : i \in 1..Len(Duck)}
SOUNDS == 0..(NumSounds - 1)
NoSound == 0 - 1

\* ------------------------------------------------------------- conversions

DigitChars == <<"0", "1", "2", "3", "4", "5", "6", "7", "8", "9">>
IsDigit(c) == \E i \in 1..10 : DigitChars[i] = c
DigitVal(c) == CHOOSE i \in 0..9 : DigitChars[i + 1] = c
AllDigits(s) == \A i \in 1..Len(s) : IsDigit(s[i])

RECURSIVE NatValue(_)
NatValue(s) ==
    IF s = <<>> THEN 0
    ELSE NatValue(SubSeq(s, 1, Len(s) - 1)) * 10 + DigitVal(s[Len(s)])

RECURSIVE NatText(_)
NatText(n) ==
    IF n < 10 THEN <<DigitChars[n + 1]>>
    ELSE NatText(n \div 10) \o <<DigitChars[(n % 10) + 1]>>

\* The characters of a string literal's variant name.
VariantChars(d) ==
    CASE d = "One" -> <<"O", "n", "e">>
      [] d = "Two" -> <<"T", "w", "o">>
      [] d = "Three" -> <<"T", "h", "r", "e", "e">>
      [] d = "Four" -> <<"F", "o", "u", "r">>

Ok(v) == [tag |-> "Ok", value |-> v]
Err(e) == [tag |-> e, value |-> 0]

\* A decimal numeral (digits, optionally "." digits) read as hundredths. The
\* model's texts carry at most two fraction digits and no sign or exponent.
\* strict: JSON's grammar (an integer part without leading zeros, and a
\* fraction, when there is a ".", of at least one digit); otherwise Rust's
\* (either part may be empty, but not both).
Decimal(t, strict) ==
    LET dots == {i \in 1..Len(t) : t[i] = "."}
        d == IF dots = {} THEN Len(t) + 1 ELSE CHOOSE i \in dots : TRUE
        ip == SubSeq(t, 1, d - 1)
        fp == SubSeq(t, d + 1, Len(t))
        wellFormed ==
            /\ Cardinality(dots) <= 1
            /\ AllDigits(ip) /\ AllDigits(fp)
            /\ Len(fp) <= 2
            /\ Len(ip) + Len(fp) > 0
            /\ strict => /\ Len(ip) > 0
                         /\ Len(ip) > 1 => ip[1] # "0"
                         /\ dots # {} => Len(fp) > 0
        frac == IF Len(fp) = 1 THEN NatValue(fp) * 10 ELSE NatValue(fp)
    IN  IF wellFormed THEN Ok(NatValue(ip) * 100 + frac) ELSE Err("SerdeError")

\* serde_json::to_string(&f64): the shortest decimal that reads back as the
\* value, always with a fraction ("2.0", "0.8", "1.37").
SerializeF64Lossy(h) == NatText(h \div 100) \o <<".">> \o NatText((h % 100) \div 10)
SerializeF64(h) ==
    LET f == h % 100
    IN  NatText(h \div 100) \o <<".">> \o
        (IF f % 10 = 0 THEN NatText(f \div 10)
         ELSE <<DigitChars[(f \div 10) + 1], DigitChars[(f % 10) + 1]>>)

\* serde_json::from_str::<f64>
DeserializeF64(t) == Decimal(t, TRUE)

\* #[derive(Serialize)] on a unit variant: the variant's name as a JSON string.
SerializeDuck(d) == <<"\"">> \o VariantChars(d) \o <<"\"">>

\* #[derive(Deserialize)]: a JSON string naming one of the four variants.
DeserializeDuck(t) ==
    IF \E d \in Ducks : t = SerializeDuck(d)
    THEN Ok(CHOOSE d \in Ducks : t = SerializeDuck(d))
    ELSE Err("SerdeError")

Serialize(k, v) == IF k = "ducky" THEN SerializeDuck(v) ELSE SerializeF64(v)
Deserialize(k, t) == IF k = "ducky" THEN DeserializeDuck(t) ELSE DeserializeF64(t)

\* event_target_value(&event).parse::<f64>()
ParseInput(t) == Decimal(t, FALSE)

\* ------------------------------------------------------------------- state

VARIABLES
    pc,             \* where app() is: the key being loaded, "view", "running", "aborted"
    storage,        \* localStorage: key -> [present, text]
    ducky,          \* the three RwSignals of app()
    playback_rate,
    volume,
    effects,        \* effects created and not yet run for the first time, in order
    audio,          \* the HtmlAudioElement of sounds()
    spawned,        \* play tasks spawned by spawn_local and not yet polled
    awaiting,       \* play tasks suspended on their play() promise
    chosen,         \* the sound the latest play task chose (NoSound: none yet)
    origin,         \* key -> how its signal got its current value
    written,        \* key -> outcome of the key's latest write-back
    last,           \* what the latest callback did
    faults          \* writes the storage will still refuse

vars == <<pc, storage, ducky, playback_rate, volume, effects, audio, spawned,
          awaiting, chosen, origin, written, last, faults>>

Item(t) == [present |-> TRUE, text |-> t]
NoItem == [present |-> FALSE, text |-> <<>>]

Callback(op, key, attempted, thrown, logged) ==
    [op |-> op, key |-> key, attempted |-> attempted, thrown |-> thrown,
     logged |-> logged]

\* The current values of the three signals, by key.
Signals == [ducky |-> ducky, playback_rate |-> playback_rate, volume |-> volume]

DefaultSwapped(k) ==
    CASE k = "ducky" -> "One"
      [] k = "playback_rate" -> DEFAULT_VOLUME
      [] k = "volume" -> DEFAULT_PLAYBACK_RATE
\* The value a signal takes when its key is not in storage.
Default(k) ==
    CASE k = "ducky" -> "One"
      [] k = "playback_rate" -> DEFAULT_PLAYBACK_RATE
      [] k = "volume" -> DEFAULT_VOLUME

\* LocalStorage::get(key)
LocalStorageGet(k) ==
    IF ~storage[k].present THEN Err("KeyNotFound")
    ELSE Deserialize(k, storage[k].text)

\* The storage after the first n of the writes LocalStorage::set(k, vals[k]),
\* k in ks, went through.
LocalStorageSet(st, ks, n, vals) ==
    [k \in Keys |->
        IF \E i \in 1..n : ks[i] = k THEN Item(Serialize(k, vals[k])) ELSE st[k]]

\* HTMLMediaElement.volume's setter takes 0.0 to 1.0 and throws otherwise.
VolumeAccepted(v) == 0 <= v /\ v <= 100

\* The effect of sounds(): set_default_playback_rate, then set_volume.
AudioSync(a, vals) ==
    [a EXCEPT !.default_playback_rate = vals.playback_rate,
              !.volume = IF VolumeAccepted(vals.volume) THEN vals.volume ELSE @]
AudioSyncThrows(vals) == ~VolumeAccepted(vals.volume)

NewAudio ==
    [src |-> NoSound, default_playback_rate |-> AudioInitial,
     playback_rate |-> AudioInitial, volume |-> AudioInitial]

\* What storage may hold when the page is first opened: nothing, an item this
\* program wrote, a number in another spelling or out of the sliders' range,
\* or text that is no value of the key's type.
InitialItems(k) ==
    CASE k = "ducky" ->
            {NoItem, Item(SerializeDuck("Three")),
             Item(<<"\"", "F", "i", "v", "e", "\"">>)}
      [] k = "playback_rate" ->
            {NoItem, Item(<<"2">>), Item(<<"f", "a", "s", "t">>)}
      [] k = "volume" ->
            {NoItem, Item(<<"0", ".", "4", "2">>), Item(<<"5">>),
             Item(<<"n", "u", "l", "l">>)}

Init ==
    /\ pc = "ducky"
    /\ storage \in [Keys -> UNION {InitialItems(k) : k \in Keys}]
    /\ \A k \in Keys : storage[k] \in InitialItems(k)
    /\ ducky = "unset"
    /\ playback_rate = 0
    /\ volume = 0
    /\ effects = <<>>
    /\ audio = NewAudio
    /\ spawned = 0
    /\ awaiting = 0
    /\ chosen = NoSound
    /\ origin = [k \in Keys |-> "unset"]
    /\ written = [k \in Keys |-> "none"]
    /\ last = Callback("main", "", <<>>, FALSE, FALSE)
    /\ faults \in 0..MaxFaults

\* ----------------------------------------------------------------- startup

NextPc(k) ==
    CASE k = "ducky" -> "playback_rate"
      [] k = "playback_rate" -> "volume"
      [] k = "volume" -> "view"

SetSignal(k, v) ==
    /\ ducky' = IF k = "ducky" THEN v ELSE ducky
    /\ playback_rate' = IF k = "playback_rate" THEN v ELSE playback_rate
    /\ volume' = IF k = "volume" THEN v ELSE volume

CreateEffectInert(queue, e) == queue
\* create_effect: the effect is queued to run once, whatever happens later.
CreateEffect(queue, e) == Append(queue, e)

\* app(), for one key: the signal is created from LocalStorage::get, and its
\* write-back effect is created. A read error other than KeyNotFound is thrown.
AppLoad(k) ==
    /\ pc = k
    /\ LET r == LocalStorageGet(k)
       IN  IF r.tag \in {"Ok", "KeyNotFound"}
           THEN /\ SetSignal(k, IF r.tag = "Ok" THEN r.value ELSE Default(k))
                /\ origin' = [origin EXCEPT ![k] = r.tag]
                /\ effects' = CreateEffect(effects, k)
                /\ pc' = NextPc(k)
                /\ last' = Callback("app", k, <<>>, FALSE, FALSE)
           ELSE /\ pc' = "aborted"
                /\ last' = Callback("app", k, <<>>, TRUE, FALSE)
                /\ UNCHANGED <<ducky, playback_rate, volume, origin, effects>>
    /\ UNCHANGED <<storage, audio, spawned, awaiting, chosen, written, faults>>

\* The view of app(): sounds() creates the audio element and its effect, and
\* mount_to_body returns.
AppView ==
    /\ pc = "view"
    /\ audio' = NewAudio
    /\ effects' = CreateEffect(effects, "audio")
    /\ pc' = "running"
    /\ last' = Callback("app", "view", <<>>, FALSE, FALSE)
    /\ UNCHANGED <<storage, ducky, playback_rate, volume, spawned, awaiting,
                   chosen, origin, written, faults>>

\* The bookkeeping of the writes the callback attempted: ks[1..n] went
\* through, and ks[n+1], if attempted, failed.
Written(ks, n, failed, vals) ==
    /\ storage' = LocalStorageSet(storage, ks, n, vals)
    /\ written' = [k \in Keys |->
                      IF \E i \in 1..n : ks[i] = k THEN "ok"
                      ELSE IF failed /\ ks[n + 1] = k THEN "failed"
                      ELSE written[k]]
    /\ failed => faults > 0
    /\ faults' = IF failed THEN faults - 1 ELSE faults

UnwrapSwallowed(ok) == FALSE
\* Result::unwrap_throw: an Err is thrown.
UnwrapThrow(ok) == ~ok

\* The first run of an effect, after app() has returned.
RunEffect ==
    /\ pc = "running"
    /\ effects # <<>>
    /\ effects' = Tail(effects)
    /\ LET e == Head(effects)
       IN  IF e = "audio"
           THEN /\ audio' = AudioSync(audio, Signals)
                /\ last' = Callback("effect", e, <<>>, AudioSyncThrows(Signals),
                                    FALSE)
                /\ UNCHANGED <<storage, written, faults>>
           ELSE \E ok \in BOOLEAN :
                /\ Written(<<e>>, IF ok THEN 1 ELSE 0, ~ok, Signals)
                /\ last' = Callback("effect", e, <<e>>, UnwrapThrow(ok), FALSE)
                /\ UNCHANGED audio
    /\ UNCHANGED <<pc, ducky, playback_rate, volume, spawned, awaiting, chosen,
                   origin>>

\* ------------------------------------------------------------------ events

\* The page is idle: app() has returned and no microtask is left to run.
Idle == pc = "running" /\ effects = <<>> /\ spawned = 0

NotifiedAll(k) == <<"ducky", "playback_rate", "volume">>
\* The write-back effects a change of signal k re-runs: the one that read it.
Notified(k) == <<k>>

\* signal.set(v) on the signal of key k, with the effects it re-runs before it
\* returns: the key's write-back, then (for the two audio settings) the effect
\* of sounds(). A write that fails is thrown, and nothing after it runs.
Change(op, k, v, logs) ==
    LET vals == [Signals EXCEPT ![k] = v]
        ks == Notified(k)
    IN  /\ SetSignal(k, v)
        /\ origin' = [origin EXCEPT ![k] = "set"]
        /\ \E f \in 0..Len(ks) :
            LET n == IF f = 0 THEN Len(ks) ELSE f - 1
                failed == UnwrapThrow(f = 0)
                sync == ~failed /\ k # "ducky"
                thrown == failed \/ (sync /\ AudioSyncThrows(vals))
            IN  /\ Written(ks, n, f # 0, vals)
                /\ audio' = IF sync THEN AudioSync(audio, vals) ELSE audio
                /\ last' = Callback(op, k, SubSeq(ks, 1, IF f = 0 THEN n ELSE f),
                                    thrown, logs /\ ~thrown)

Sliders == {"playback_rate", "volume"}
SliderMin(k) == IF k = "playback_rate" THEN RateMin ELSE VolumeMin
SliderMax(k) == IF k = "playback_rate" THEN RateMax ELSE VolumeMax

\* The values a range input reports: a number in the browser's spelling,
\* within the input's min and max.
InputTexts(k) ==
    {t \in {<<"0", ".", "0", "1">>, <<"1", ".", "3", "7">>, <<"2">>} :
        /\ ParseInput(t).value >= SliderMin(k)
        /\ ParseInput(t).value <= SliderMax(k)}

\* slider: input
SliderInput(k) ==
    /\ Idle
    /\ \E t \in InputTexts(k) :
        LET r == ParseInput(t)
        IN  IF UnwrapThrow(r.tag = "Ok")
            THEN /\ last' = Callback("input", k, <<>>, TRUE, FALSE)
                 /\ UNCHANGED <<storage, ducky, playback_rate, volume, audio,
                                origin, written, faults>>
            ELSE Change("input", k, r.value, FALSE)
    /\ UNCHANGED <<pc, effects, spawned, awaiting, chosen>>

\* slider: reset
SliderReset(k) ==
    /\ Idle
    /\ Change("reset", k, Default(k), FALSE)
    /\ UNCHANGED <<pc, effects, spawned, awaiting, chosen>>

SelectUnguarded(duck) == TRUE
\* settings: the guard of select
SelectGuard(duck) == ducky # duck

\* settings: duck_view's select
Select(duck) ==
    /\ Idle
    /\ IF SelectGuard(duck)
       THEN Change("select", "ducky", duck, TRUE)
       ELSE /\ last' = Callback("select", "ducky", <<>>, FALSE, FALSE)
            /\ UNCHANGED <<storage, ducky, playback_rate, volume, audio, origin,
                           written, faults>>
    /\ UNCHANGED <<pc, effects, spawned, awaiting, chosen>>

\* ------------------------------------------------------------------- sounds

\* sounds: play, the click handler: the task is spawned and runs later.
Play ==
    /\ Idle
    /\ awaiting < MaxPending
    /\ spawned' = spawned + 1
    /\ last' = Callback("play", "", <<>>, FALSE, FALSE)
    /\ UNCHANGED <<pc, storage, ducky, playback_rate, volume, effects, audio,
                   awaiting, chosen, origin, written, faults>>

ChoiceNoRepeat == SOUNDS \ {audio.src}
\* fastrand::choice(SOUNDS).unwrap(): any entry of the catalog.
Choice == SOUNDS

SetSrcQueued(a, sound) == IF awaiting > 0 THEN a ELSE [a EXCEPT !.src = sound]
\* audio.set_src(sound): the element loads the new source, which also resets
\* its playbackRate to its defaultPlaybackRate.
SetSrc(a, sound) ==
    [a EXCEPT !.src = sound, !.playback_rate = a.default_playback_rate]

\* The spawned task up to its await: choose, set_src, play().
TaskStart(sound) ==
    /\ pc = "running"
    /\ spawned > 0
    /\ sound \in Choice
    /\ audio' = SetSrc(audio, sound)
    /\ chosen' = sound
    /\ spawned' = spawned - 1
    /\ awaiting' = awaiting + 1
    /\ last' = Callback("task", "", <<>>, FALSE, FALSE)
    /\ UNCHANGED <<pc, storage, ducky, playback_rate, volume, effects, origin,
                   written, faults>>

\* The task after its await: the promise resolved, or it was rejected (the
\* source failed to load, playback was not allowed, a later load aborted it)
\* and unwrap_throw throws.
TaskResume ==
    /\ pc = "running"
    /\ awaiting > 0
    /\ awaiting' = awaiting - 1
    /\ \E resolved \in BOOLEAN :
        last' = Callback("resume", "", <<>>, UnwrapThrow(resolved), FALSE)
    /\ UNCHANGED <<pc, storage, ducky, playback_rate, volume, effects, audio,
                   spawned, chosen, origin, written, faults>>

\* Startup and the settings panel.
NextSettings ==
    \/ \E k \in Keys : AppLoad(k)
    \/ AppView
    \/ RunEffect
    \/ \E k \in Sliders : SliderInput(k)
    \/ \E k \in Sliders : SliderReset(k)
    \/ \E d \in Ducks : Select(d)

\* The whole page.
Next ==
    \/ \E k \in Keys : AppLoad(k)
    \/ AppView
    \/ RunEffect
    \/ \E k \in Sliders : SliderInput(k)
    \/ \E k \in Sliders : SliderReset(k)
    \/ \E d \in Ducks : Select(d)
    \/ Play
    \/ \E s \in SOUNDS : TaskStart(s)
    \/ TaskResume

\* A storage that refuses no write.
InitSounds == Init /\ faults = 0

SpecSettings == Init /\ [][NextSettings]_vars
Spec == InitSounds /\ [][Next]_vars

\* ------------------------------------------------------------------ claims

\* C1: once the write-back of a key's latest change has gone through, a load
\* of the key returns exactly the signal's current value.
RoundTrip ==
    \A k \in Keys :
        written[k] = "ok" =>
            /\ LocalStorageGet(k).tag = "Ok"
            /\ LocalStorageGet(k).value = Signals[k]

\* A playback rate of 1.37 was set on the slider and is stored as "1.37".
RoundTripWitness ==
    /\ last.op = "input" /\ last.key = "playback_rate"
    /\ playback_rate = 137
    /\ written["playback_rate"] = "ok"
    /\ storage["playback_rate"] = Item(<<"1", ".", "3", "7">>)

\* C2: a stored item that does not deserialize never aborts startup: the
\* signal of its key takes the default.
TolerantReads ==
    /\ pc # "aborted"
    /\ \A k \in Keys :
        (origin[k] # "unset" /\ LocalStorageGet(k).tag = "SerdeError")
            => Signals[k] = Default(k)

\* C3: a signal whose key was absent from storage when app() read it holds
\* the documented default: One, 0.8, 0.1.
DefaultsOnMiss ==
    \A k \in Keys :
        origin[k] = "KeyNotFound" =>
            Signals[k] = (CASE k = "ducky" -> "One"
                            [] k = "playback_rate" -> 80
                            [] k = "volume" -> 10)

\* Only playback_rate was absent: it is 0.8 beside a loaded duck and volume.
DefaultsOnMissWitness ==
    /\ origin = [ducky |-> "Ok", playback_rate |-> "KeyNotFound", volume |-> "Ok"]
    /\ ducky = "Three" /\ playback_rate = 80 /\ volume = 42

\* C4: a select that leaves the selection as it was (the current duck was
\* selected) writes nothing, logs nothing and changes nothing else.
SelectCurrentIsNoOp ==
    [][(last'.op = "select" /\ ducky' = ducky) =>
          /\ last'.attempted = <<>>
          /\ ~last'.logged
          /\ UNCHANGED <<storage, playback_rate, volume, audio, written, faults>>]_vars

\* The current duck was selected.
SelectCurrentWitness ==
    /\ last.op = "select"
    /\ last.attempted = <<>>
    /\ ~last.logged /\ ~last.thrown

\* C5: once the play tasks spawned so far have run, the audio element's source
\* is the one the latest of them chose, whatever became of the earlier
\* requests' promises.
LastWriteWins ==
    (pc = "running" /\ spawned = 0 /\ chosen # NoSound) => audio.src = chosen

\* Of two pending requests one was rejected; the source is the latest choice.
LastWriteWinsWitness ==
    /\ last.op = "resume" /\ last.thrown
    /\ awaiting = MaxPending - 1
    /\ chosen = 3 /\ audio.src = 3

\* C6: in every idle state the audio element's default playback rate and
\* volume are the two preferences, and a play task starts playback at them.
AudioTracksPreferences ==
    /\ Idle =>
        /\ audio.default_playback_rate = playback_rate
        /\ audio.volume = volume
    /\ (pc = "running" /\ last.op = "task") =>
        /\ audio.playback_rate = playback_rate
        /\ audio.volume = volume

\* C7: a write-back that fails is thrown by the callback that attempted it,
\* and nothing of that callback runs after it.
IntolerantWrites ==
    [][faults' < faults =>
          /\ last'.thrown
          /\ ~last'.logged
          /\ audio' = audio
          /\ storage' = storage
          /\ written'[last'.attempted[Len(last'.attempted)]] = "failed"]_vars

\* A slider change whose write-back failed.
IntolerantWritesWitness ==
    /\ last.op = "input" /\ last.thrown
    /\ last.attempted = <<last.key>>
    /\ written[last.key] = "failed"
    /\ LocalStorageGet(last.key).value # Signals[last.key]

\* C8: a slider change, a slider reset or the selection of another duck
\* attempts exactly one write, to its own key, and leaves the other two
\* signals and their stored items as they were.
OneWritePerChange ==
    [][\A k \in Keys :
          (/\ last'.key = k
           /\ \/ last'.op \in {"input", "reset"}
              \/ last'.op = "select" /\ ducky' # ducky)
          => /\ last'.attempted = <<k>>
             /\ \A j \in Keys \ {k} : storage'[j] = storage[j]
             /\ k # "ducky" => ducky' = ducky
             /\ k # "playback_rate" => playback_rate' = playback_rate
             /\ k # "volume" => volume' = volume]_vars

\* A volume reset wrote "0.1" under volume.
OneWritePerChangeWitness ==
    /\ last.op = "reset" /\ last.key = "volume"
    /\ last.attempted = <<"volume">> /\ ~last.thrown
    /\ storage["volume"] = Item(<<"0", ".", "1">>)

\* C9: the source is an entry of the catalog (index 0 to 7), and a play task
\* that is about to choose may choose any of the eight, the current one too.
InCatalog ==
    /\ audio.src \in (0..7) \cup {NoSound}
    /\ chosen \in (0..7) \cup {NoSound}
    /\ (pc = "running" /\ spawned > 0) => \A s \in 0..7 : ENABLED TaskStart(s)

\* The last entry is playing and the next task may choose it again.
InCatalogWitness ==
    /\ spawned > 0
    /\ audio.src = 7
    /\ ENABLED TaskStart(7)

\* C10: when startup is over every key's write-back has been attempted
\* without any user action, a key whose write went through holds the text
\* of the loaded or default value ("One", 0.8 and 0.1 for the keys that were
\* absent), and a key once present is never absent again.
StartupWriteBack ==
    /\ [](Idle =>
            \A k \in Keys :
                /\ written[k] # "none"
                /\ (written[k] = "ok" /\ origin[k] # "set") =>
                       storage[k] = Item(Serialize(k, Signals[k]))
                /\ (written[k] = "ok" /\ origin[k] = "KeyNotFound") =>
                       storage[k].text =
                           (CASE k = "ducky" -> <<"\"", "O", "n", "e", "\"">>
                              [] k = "playback_rate" -> <<"0", ".", "8">>
                              [] k = "volume" -> <<"0", ".", "1">>))
    /\ [][\A k \in Keys : storage[k].present => storage'[k].present]_vars

\* Startup from an empty storage has just ended: the three defaults are stored.
StartupWriteBackWitness ==
    /\ Idle /\ last.op = "effect"
    /\ \A k \in Keys : origin[k] = "KeyNotFound"
    /\ storage = [ducky |-> Item(<<"\"", "O", "n", "e", "\"">>),
                  playback_rate |-> Item(<<"0", ".", "8">>),
                  volume |-> Item(<<"0", ".", "1">>)]

====
